---------------------------- MODULE Spec2Model ----------------------------
(***************************************************************************)
(* A model of the database-less Slack poll of rpiambulance/slack-poll.     *)
(* The whole poll lives in the block list of one chat message; class Poll  *)
(* (src/src/Poll.ts) decodes it, mutates it and hands the blocks back.     *)
(*                                                                         *)
(* Strings are sequences of symbols.  A symbol is a TLA+ string standing   *)
(* for one indivisible piece of text ("U", "1", ",", " ", "multiple",      *)
(* "(Anonymous)", ...), so split, join, includes, replace, toLowerCase and *)
(* the template literals of the source are computed on the text and are    *)
(* not the identity.  Indices into block lists are 0-based as in the       *)
(* source; At and Slice translate them.                                    *)
(***************************************************************************)
EXTENDS Integers, Sequences, FiniteSets, TLC

VARIABLES parameters, message, lockApplied, inflight, landed

vars == <<parameters, message, lockApplied, inflight, landed>>

\* parameters:  the lines of the command the poll was created from.
\* message:     the blocks of the poll's chat message, as the platform
\*              stores them.
\* lockApplied: applyLock was applied and no applyUnlock after it.
\* inflight:    the interactions (payloads) received and not yet answered;
\*              each carries the blocks the message had when the user acted.
\*              In the move to the bottom: the calls issued and not yet
\*              completed, each with the payload of its request.
\* landed:      the payloads whose answers have replaced the message, in the
\*              order of their arrival.  In the move to the bottom: the
\*              calls completed, in order, each with its outcome.

\* Number of distinct users that interact with the poll.
NumUsers == 2

-----------------------------------------------------------------------------
(* JavaScript string and array primitives used by the source.              *)

Min(a, b) == IF a < b THEN a ELSE b
Max(a, b) == IF a > b THEN a ELSE b

\* Array.prototype.slice / String.prototype.slice(begin, end), 0-based,
\* negative indices counted from the end.
Slice(s, begin, end) ==
    LET n == Len(s)
        b == IF begin < 0 THEN Max(n + begin, 0) ELSE Min(begin, n)
        e == IF end < 0 THEN Max(n + end, 0) ELSE Min(end, n)
    IN  IF e <= b THEN << >> ELSE SubSeq(s, b + 1, e)

\* Array.prototype.map results are built as plain sequences.
Seq1(f) == SubSeq(f, 1, Len(f))

\* slice(begin) with no end.
SliceFrom(s, begin) == Slice(s, begin, Len(s))

\* s[i] with a 0-based index.
At(s, i) == s[i + 1]

\* String.prototype.indexOf / Array.prototype.indexOf: first 0-based position
\* at which sub (a string) starts in s, or -1.
StartsAt(s, sub, i) ==
    /\ i + Len(sub) <= Len(s)
    /\ \A k \in 1..Len(sub) : s[i + k] = sub[k]

IndexOfStr(s, sub) ==
    IF \E i \in 0..Len(s) : StartsAt(s, sub, i)
    THEN CHOOSE i \in 0..Len(s) :
            StartsAt(s, sub, i) /\ \A j \in 0..(i - 1) : ~StartsAt(s, sub, j)
    ELSE -1

\* String.prototype.includes
Includes(s, sub) == IndexOfStr(s, sub) # -1

\* Array.prototype.indexOf on an array of strings.
IndexOf(arr, x) ==
    IF \E i \in 1..Len(arr) : arr[i] = x
    THEN (CHOOSE i \in 1..Len(arr) :
            arr[i] = x /\ \A j \in 1..(i - 1) : arr[j] # x) - 1
    ELSE -1

\* String.prototype.replace(pattern, replacement) with a string pattern:
\* only the first occurrence is replaced.
Replace(s, pat, rep) ==
    LET i == IndexOfStr(s, pat)
    IN  IF i = -1 THEN s
        ELSE Slice(s, 0, i) \o rep \o SliceFrom(s, i + Len(pat))

\* String.prototype.split(sep) for a one-symbol separator.  "".split(sep)
\* is [""], as in JavaScript.
RECURSIVE Split(_, _)
Split(s, sep) ==
    LET i == IndexOfStr(s, <<sep>>)
    IN  IF i = -1 THEN <<s>>
        ELSE <<Slice(s, 0, i)>> \o Split(SliceFrom(s, i + 1), sep)

\* Array.prototype.join(sep).
RECURSIVE Join(_, _)
Join(arr, sep) ==
    IF Len(arr) = 0 THEN << >>
    ELSE IF Len(arr) = 1 THEN arr[1]
    ELSE arr[1] \o <<sep>> \o Join(Tail(arr), sep)

\* Array.prototype.splice(i, 1): the array without its element at 0-based i.
Splice1(arr, i) == Slice(arr, 0, i) \o SliceFrom(arr, i + 1)

\* String.prototype.toLowerCase, symbol by symbol.
LowerSym(c) ==
    CASE c = "Multiple" -> "multiple"
      [] c = "MULTIPLE" -> "multiple"
      [] c = "Anon" -> "anon"
      [] c = "ANON" -> "anon"
      [] OTHER -> c

ToLowerCase(s) == Seq1([k \in 1..Len(s) |-> LowerSym(s[k])])

\* Number-to-string conversion of a template literal `${n}`.
DigitSym == <<"0", "1", "2", "3", "4", "5", "6", "7", "8", "9">>

RECURSIVE NatToStr(_)
NatToStr(n) ==
    IF n < 10 THEN <<DigitSym[n + 1]>>
    ELSE NatToStr(n \div 10) \o <<DigitSym[(n % 10) + 1]>>


-----------------------------------------------------------------------------
(* Literal texts of the source, one symbol each where the source never     *)
(* looks inside them.                                                      *)

MultipleMarker == <<"(Multiple Answers)">>
AnonymousMarker == <<"(Anonymous)">>
MultipleSuffix == <<" ", "*">> \o MultipleMarker \o <<"*", " ">>
AnonymousSuffix == <<" ", "*">> \o AnonymousMarker \o <<"*", " ">>
LockGlyph == <<":lock:">>
HiddenToken == <<"~HIDDEN~">>
AskedBy == <<"Asked by:", " ">>
EmptyVotes == <<" ">>

\* `<@${id}>`
Mention(id) == <<"<@">> \o id \o <<">">>

-----------------------------------------------------------------------------
(* Block model: every block is [type, text, elements]; every element is    *)
(* [type, text, value, options]; a select option is [text, value].         *)

buildTextElem(text) ==
    [type |-> "plain_text", text |-> text, value |-> << >>, options |-> << >>]

buildSectionBlock(text) ==
    [type |-> "section", text |-> text, elements |-> << >>]

buildContextBlock(text) ==
    [type |-> "context", text |-> << >>, elements |-> <<buildTextElem(text)>>]

buildSelectOption(text, value) == [text |-> text, value |-> value]

buildButton(label, value) ==
    [type |-> "button", text |-> label, value |-> value, options |-> << >>]

buildActionsBlock(elements) ==
    [type |-> "actions", text |-> << >>, elements |-> elements]

DividerBlock == [type |-> "divider", text |-> << >>, elements |-> << >>]

\* PollHelpers.appendIfMatching(optionArray, keyword, appendText)
appendIfMatching(optionArray, keyword, appendText) ==
    IF \/ ToLowerCase(optionArray[1]) = keyword
       \/ ToLowerCase(optionArray[2]) = keyword
    THEN appendText ELSE << >>

\* A new actions block is opened whenever the line index is a multiple of it.
ButtonsPerBlock == 5

\* The label of a button: the line with the escaping artifacts rewritten.
cleanLabel(line) ==
    Replace(Replace(Replace(line, <<"&amp;">>, <<"+">>),
                    <<"&lt;">>, <<"greater than", " ">>),
            <<"&gt;">>, <<"less than", " ">>)

\* PollHelpers.buildVoteOptions(parameters, start): the button loop.  Line i
\* (0-based) goes to the block whose number is the count of indices j in
\* start..i with j % 5 = 0; block 0 exists even when it stays empty.
buildVoteOptions(params, start) ==
    LET n == Len(params)
        blockOf(i) == Cardinality({j \in start..i : j % ButtonsPerBlock = 0})
        nBlocks == IF n - 1 < start THEN 1 ELSE blockOf(n - 1) + 1
        lines(b) == {i \in start..(n - 1) : blockOf(i) = b}
        first(b) == CHOOSE i \in lines(b) : \A j \in lines(b) : i <= j
    IN  Seq1([b \in 1..nBlocks |->
            buildActionsBlock(
                IF lines(b - 1) = {} THEN << >>
                ELSE Seq1([k \in 1..Cardinality(lines(b - 1)) |->
                        buildButton(cleanLabel(At(params, first(b - 1) + k - 1)),
                                    EmptyVotes)]))])

\* The control menu: a static_select with four entries, the second given.
staticSelect(second) ==
    buildActionsBlock(<<
        [type |-> "static_select", text |-> <<"Poll Options">>, value |-> << >>,
         options |-> <<
            buildSelectOption(<<"Reset your vote">>, <<"reset">>),
            second,
            buildSelectOption(<<"Move to bottom">>, <<"bottom">>),
            buildSelectOption(<<"Delete poll">>, <<"delete">>)>>]>>)

LockOption == buildSelectOption(<<":lock:", " ", "Lock poll">>, <<"lock">>)
UnlockOption == buildSelectOption(<<":unlock:", " ", "Unlock poll">>, <<"unlock">>)

-----------------------------------------------------------------------------
(* class Poll: decoding.                                                   *)

getDividerId(msg) ==
    IF \E i \in 0..(Len(msg) - 1) : At(msg, i).type = "divider"
    THEN CHOOSE i \in 0..(Len(msg) - 1) :
            /\ At(msg, i).type = "divider"
            /\ \A j \in (i + 1)..(Len(msg) - 1) : At(msg, j).type # "divider"
    ELSE -1

getTitleFromMsg(msg) == At(msg, 0).text

checkIfMsgContains(msg, value) == Includes(getTitleFromMsg(msg), value)

\* new Poll(message): the flags are read back from the title and from the
\* block that follows the divider.
Poll(msg) ==
    [message |-> msg,
     multiple |-> checkIfMsgContains(msg, MultipleMarker),
     anonymous |-> checkIfMsgContains(msg, AnonymousMarker),
     isLocked |-> IF Len(msg) - 1 # getDividerId(msg)
                  THEN At(msg, getDividerId(msg) + 1).text = LockGlyph
                  ELSE FALSE]

\* What the constructor throws for a list of blocks of any shape: the reads
\* message[0].text.text and message[dividerId + 1].text.text raise a
\* TypeError when the block is missing or has no text, which only a section
\* has; nothing else is looked at, and no divider makes dividerId -1.
constructorThrows(msg) ==
    IF Len(msg) = 0 \/ At(msg, 0).type # "section" THEN "TypeError"
    ELSE IF /\ Len(msg) - 1 # getDividerId(msg)
            /\ At(msg, getDividerId(msg) + 1).type # "section"
         THEN "TypeError"
         ELSE "nothing"

getBlocks(poll) == poll.message

getLockedStatus(poll) == poll.isLocked

getAuthor(poll) == Replace(At(poll.message, 1).elements[1].text, AskedBy, << >>)

\* parameters[i] as a string operand: a missing line reads "undefined".
ParamStr(params, i) ==
    IF i < Len(params) THEN At(params, i) ELSE <<"undefined">>

\* Poll.slashCreate(author, parameters)
slashCreate(author, params) ==
    LET split == Split(At(params, 0), " ")
        optionArray == IF Len(split) = 1 THEN Append(split, <<" ">>) ELSE split
        flagged == \/ ToLowerCase(optionArray[1]) = <<"multiple">>
                   \/ ToLowerCase(optionArray[1]) = <<"anon">>
        mrkdwnValue ==
            IF flagged
            THEN ParamStr(params, 1)
                    \o appendIfMatching(optionArray, <<"multiple">>, MultipleSuffix)
                    \o appendIfMatching(optionArray, <<"anon">>, AnonymousSuffix)
            ELSE At(params, 0)
        titleBlock == buildSectionBlock(mrkdwnValue)
        start == IF titleBlock.text = At(params, 0) THEN 1 ELSE 2
    IN  Poll(<<titleBlock, buildContextBlock(AskedBy \o author)>>
             \o buildVoteOptions(params, start)
             \o <<staticSelect(LockOption)>>
             \o <<DividerBlock>>)


-----------------------------------------------------------------------------
(* class Poll: the button scan.                                            *)

\* The buttons processButtons visits, in order, when the callback never
\* returns true (generateResults).
RECURSIVE visitedButtons(_, _, _)
visitedButtons(msg, i, loopEnd) ==
    IF i >= loopEnd \/ i >= Len(msg) THEN << >>
    ELSE (IF At(msg, i).type = "actions"
          THEN SelectSeq(At(msg, i).elements, LAMBDA e : e.type = "button")
          ELSE << >>) \o visitedButtons(msg, i + 1, loopEnd)

\* processButtons(loopEnd, buttonCallback) as used by vote and resetVote:
\* cb[button] is [button |-> the button as the callback leaves it,
\* stop |-> the callback's return value], for every button in reach.  A true
\* return value leaves the loop over the elements of the current block only;
\* the loop over the blocks goes on.
scanElements(elems, cb) ==
    LET stops(j) == elems[j].type = "button" /\ cb[elems[j]].stop
        last == IF \E j \in 1..Len(elems) : stops(j)
                THEN CHOOSE j \in 1..Len(elems) :
                        stops(j) /\ \A k \in 1..(j - 1) : ~stops(k)
                ELSE Len(elems)
    IN  Seq1([j \in 1..Len(elems) |->
                IF elems[j].type = "button" /\ j <= last
                THEN cb[elems[j]].button ELSE elems[j]])

processButtons(msg, loopEnd, cb) ==
    Seq1([i \in 1..Len(msg) |->
            IF i - 1 >= 2 /\ i - 1 < loopEnd /\ msg[i].type = "actions"
            THEN [msg[i] EXCEPT !.elements = scanElements(msg[i].elements, cb)]
            ELSE msg[i]])

\* The set of buttons a scan up to loopEnd can meet.
Range(seq) == {seq[k] : k \in 1..Len(seq)}

buttonSet(msg, loopEnd) == Range(visitedButtons(msg, 2, loopEnd))

getVotesAndUserIndex(button, userId) ==
    LET votes == Split(button.value, ",")
    IN  [votes |-> votes, userIdIndex |-> IndexOf(votes, userId)]

-----------------------------------------------------------------------------
(* class Poll: the tally.                                                  *)

NullSection == [type |-> "null", text |-> << >>, elements |-> << >>]

\* buildVoteTally(overrideAnon, votes, key) with value = votes[key]
buildVoteTally(poll, overrideAnon, value, key) ==
    LET users == Splice1(Split(value, ","), 0)
        names == IF ~poll.anonymous \/ overrideAnon
                 THEN Join(Seq1([k \in 1..Len(users) |-> Mention(users[k])]), ",")
                 ELSE HiddenToken
    IN  IF Len(users) = 0 THEN NullSection
        ELSE buildSectionBlock(<<"*">> \o NatToStr(Len(users)) \o <<"*", " ">>
                               \o key \o <<" ", "»", " ">> \o names)

\* votes[key] = value on a plain object: an own key keeps its place and
\* takes the new value, a new key is added last.
setKey(obj, key, value) ==
    IF \E i \in 1..Len(obj) : obj[i].key = key
    THEN Seq1([i \in 1..Len(obj) |->
            IF obj[i].key = key THEN [key |-> key, value |-> value] ELSE obj[i]])
    ELSE Append(obj, [key |-> key, value |-> value])

RECURSIVE collectVotes(_, _)
collectVotes(buttons, obj) ==
    IF Len(buttons) = 0 THEN obj
    ELSE collectVotes(Tail(buttons), setKey(obj, buttons[1].text, buttons[1].value))

\* A property name that is a canonical array index ("0", "7", "12", not
\* "01"): for-in lists these first, in ascending numeric order.
IsDigit(c) == \E d \in 1..10 : DigitSym[d] = c

IsArrayIndex(key) ==
    /\ Len(key) > 0
    /\ \A k \in 1..Len(key) : IsDigit(key[k])
    /\ Len(key) = 1 \/ key[1] # "0"
    /\ Len(key) <= 9

RECURSIVE StrToNat(_)
StrToNat(key) ==
    IF Len(key) = 0 THEN 0
    ELSE 10 * StrToNat(Slice(key, 0, Len(key) - 1))
         + ((CHOOSE d \in 1..10 : DigitSym[d] = key[Len(key)]) - 1)

RECURSIVE sortByIndex(_)
sortByIndex(entries) ==
    IF Len(entries) = 0 THEN << >>
    ELSE LET m == CHOOSE i \in 1..Len(entries) :
                    \A j \in 1..Len(entries) :
                        StrToNat(entries[i].key) <= StrToNat(entries[j].key)
         IN  <<entries[m]>> \o sortByIndex(Splice1(entries, m - 1))

\* The order in which `for (const key in votes)` lists the keys.
forInOrder(obj) ==
    sortByIndex(SelectSeq(obj, LAMBDA e : IsArrayIndex(e.key)))
        \o SelectSeq(obj, LAMBDA e : ~IsArrayIndex(e.key))

\* generateResults(overrideAnon)
generateResults(poll, overrideAnon) ==
    LET dividerId == getDividerId(poll.message)
        votes == collectVotes(visitedButtons(poll.message, 2, dividerId), << >>)
        keys == forInOrder(votes)
        tallies == Seq1([k \in 1..Len(keys) |->
                        buildVoteTally(poll, overrideAnon, keys[k].value, keys[k].key)])
        sections == SelectSeq(tallies, LAMBDA t : t # NullSection)
    IN  IF poll.isLocked THEN <<buildSectionBlock(LockGlyph)>> \o sections
        ELSE sections

\* generateVoteResults()
generateVoteResults(poll) ==
    [poll EXCEPT !.message =
        Slice(poll.message, 0, getDividerId(poll.message) + 1)
            \o generateResults(poll, FALSE)]

\* readButton that empties the votes string it has read.
readButtonClears(button) ==
    [button |-> [button EXCEPT !.value = EmptyVotes], stop |-> FALSE]

\* The callback of generateResults, applied to one button: the votes string
\* is copied into votes, the button stays as it is, the scan goes on.
readButton(button) == [button |-> button, stop |-> FALSE]

\* The poll object after generateResults: the scan up to the divider has
\* run with the reading callback and this.message was not assigned.
afterGenerateResults(poll) ==
    [poll EXCEPT !.message =
        processButtons(poll.message, getDividerId(poll.message),
            [b \in buttonSet(poll.message, getDividerId(poll.message)) |->
                readButton(b)])]

\* collectResults()
collectResults(poll) ==
    <<buildSectionBlock(getTitleFromMsg(poll.message)
        \o <<" ", "*RESULTS (Confidential: do not distribute)*">>)>>
        \o generateResults(poll, TRUE)


-----------------------------------------------------------------------------
(* class Poll: the mutators.                                               *)

\* voteButton with a re-click taking the standing vote back (a toggle).
voteButtonToggle(poll, buttonText, userId, button) ==
    LET r == getVotesAndUserIndex(button, userId)
        votes == IF ~poll.multiple /\ r.userIdIndex > -1 /\ button.text # buttonText
                 THEN Splice1(r.votes, r.userIdIndex)
                 ELSE IF button.text = buttonText /\ r.userIdIndex = -1
                 THEN Append(r.votes, userId)
                 ELSE IF button.text = buttonText
                 THEN Splice1(r.votes, r.userIdIndex)
                 ELSE r.votes
    IN  [button |-> [button EXCEPT !.value = Join(votes, ",")], stop |-> FALSE]

\* voteButton without the test of the multiple flag: every vote is exclusive.
voteButtonExclusive(poll, buttonText, userId, button) ==
    LET r == getVotesAndUserIndex(button, userId)
        votes == IF r.userIdIndex > -1 /\ button.text # buttonText
                 THEN Splice1(r.votes, r.userIdIndex)
                 ELSE IF button.text = buttonText /\ r.userIdIndex = -1
                 THEN Append(r.votes, userId)
                 ELSE r.votes
    IN  [button |-> [button EXCEPT !.value = Join(votes, ",")], stop |-> FALSE]

\* voteButton that puts a new voter first, right after the placeholder.
voteButtonPrepends(poll, buttonText, userId, button) ==
    LET r == getVotesAndUserIndex(button, userId)
        votes == IF ~poll.multiple /\ r.userIdIndex > -1 /\ button.text # buttonText
                 THEN Splice1(r.votes, r.userIdIndex)
                 ELSE IF button.text = buttonText /\ r.userIdIndex = -1
                 THEN <<r.votes[1], userId>> \o Tail(r.votes)
                 ELSE r.votes
    IN  [button |-> [button EXCEPT !.value = Join(votes, ",")], stop |-> FALSE]

\* voteButton that never takes a standing vote out.
voteButtonNoRemoval(poll, buttonText, userId, button) ==
    LET r == getVotesAndUserIndex(button, userId)
        votes == IF button.text = buttonText /\ r.userIdIndex = -1
                 THEN Append(r.votes, userId)
                 ELSE r.votes
    IN  [button |-> [button EXCEPT !.value = Join(votes, ",")], stop |-> FALSE]

\* The callback of vote, applied to one button.
voteButton(poll, buttonText, userId, button) ==
    LET r == getVotesAndUserIndex(button, userId)
        votes == IF ~poll.multiple /\ r.userIdIndex > -1 /\ button.text # buttonText
                 THEN Splice1(r.votes, r.userIdIndex)
                 ELSE IF button.text = buttonText /\ r.userIdIndex = -1
                 THEN Append(r.votes, userId)
                 ELSE r.votes
    IN  [button |-> [button EXCEPT !.value = Join(votes, ",")], stop |-> FALSE]

\* vote without the early return of a locked poll.
voteNoLockCheck(poll, buttonText, userId) ==
    generateVoteResults(
        [poll EXCEPT !.message =
            processButtons(poll.message, Len(poll.message),
                [b \in buttonSet(poll.message, Len(poll.message)) |->
                    voteButton(poll, buttonText, userId, b)])])

\* vote(buttonText, userId)
vote(poll, buttonText, userId) ==
    IF poll.isLocked THEN poll
    ELSE generateVoteResults(
            [poll EXCEPT !.message =
                processButtons(poll.message, Len(poll.message),
                    [b \in buttonSet(poll.message, Len(poll.message)) |->
                        voteButton(poll, buttonText, userId, b)])])

\* resetButton that ends the scan of the block after any removal.
resetButtonStops(poll, userId, button) ==
    LET r == getVotesAndUserIndex(button, userId)
    IN  IF r.userIdIndex = -1 THEN [button |-> button, stop |-> FALSE]
        ELSE [button |-> [button EXCEPT
                            !.value = Join(Splice1(r.votes, r.userIdIndex), ",")],
              stop |-> TRUE]

\* resetButton that takes every voter out of a button the user voted for.
resetButtonClears(poll, userId, button) ==
    LET r == getVotesAndUserIndex(button, userId)
    IN  IF r.userIdIndex = -1 THEN [button |-> button, stop |-> FALSE]
        ELSE [button |-> [button EXCEPT !.value = r.votes[1]],
              stop |-> ~poll.multiple]

\* The callback of resetVote, applied to one button.
resetButton(poll, userId, button) ==
    LET r == getVotesAndUserIndex(button, userId)
    IN  IF r.userIdIndex = -1 THEN [button |-> button, stop |-> FALSE]
        ELSE [button |-> [button EXCEPT
                            !.value = Join(Splice1(r.votes, r.userIdIndex), ",")],
              stop |-> ~poll.multiple]

\* resetVote(userId)
resetVote(poll, userId) ==
    generateVoteResults(
        [poll EXCEPT !.message =
            processButtons(poll.message, Len(poll.message),
                [b \in buttonSet(poll.message, Len(poll.message)) |->
                    resetButton(poll, userId, b)])])

\* getDynamicSelect that offers the lock entry whatever the lock state.
getDynamicSelectAlwaysLock(poll) == <<staticSelect(LockOption)>>

getDynamicSelect(poll) ==
    <<staticSelect(IF poll.isLocked THEN UnlockOption ELSE LockOption)>>

\* lockPoll that puts the new control menu in without taking the old one out.
lockPollKeepsMenu(poll) ==
    LET p == generateVoteResults([poll EXCEPT !.isLocked = TRUE])
        d == getDividerId(p.message)
    IN  [p EXCEPT !.message =
            Slice(p.message, 0, d) \o getDynamicSelect(p)
                \o SliceFrom(p.message, d)]

\* lockPoll()
lockPoll(poll) ==
    LET p == generateVoteResults([poll EXCEPT !.isLocked = TRUE])
        d == getDividerId(p.message)
    IN  [p EXCEPT !.message =
            Slice(p.message, 0, d - 1) \o getDynamicSelect(p)
                \o SliceFrom(p.message, d)]

\* unlockpoll that keeps the block after the divider.
unlockpollKeepsMarker(poll) ==
    LET p == [poll EXCEPT !.isLocked = FALSE]
        d == getDividerId(p.message)
    IN  [p EXCEPT !.message =
            Slice(p.message, 0, d - 1) \o getDynamicSelect(p)
                \o <<DividerBlock>> \o SliceFrom(p.message, d + 1)]

\* unlockpoll that leaves the control menu as it is.
unlockpollKeepsMenu(poll) ==
    LET p == [poll EXCEPT !.isLocked = FALSE]
        d == getDividerId(p.message)
    IN  [p EXCEPT !.message =
            Slice(p.message, 0, d)
                \o <<DividerBlock>> \o SliceFrom(p.message, d + 2)]

\* unlockpoll()
unlockpoll(poll) ==
    LET p == [poll EXCEPT !.isLocked = FALSE]
        d == getDividerId(p.message)
    IN  [p EXCEPT !.message =
            Slice(p.message, 0, d - 1) \o getDynamicSelect(p)
                \o <<DividerBlock>> \o SliceFrom(p.message, d + 2)]

-----------------------------------------------------------------------------
(* The interface of the core: decode, apply one method, hand the blocks    *)
(* back.                                                                   *)

createPoll(author, lines) == getBlocks(slashCreate(author, lines))
applyVote(blocks, optionLabel, userId) ==
    getBlocks(vote(Poll(blocks), optionLabel, userId))
applyReset(blocks, userId) == getBlocks(resetVote(Poll(blocks), userId))
applyLock(blocks) == getBlocks(lockPoll(Poll(blocks)))
applyUnlock(blocks) == getBlocks(unlockpoll(Poll(blocks)))
collect(blocks) == collectResults(Poll(blocks))

\* The blocks of the poll object once collectResults has returned.
blocksAfterCollect(blocks) == getBlocks(afterGenerateResults(Poll(blocks)))

-----------------------------------------------------------------------------
(* class Actions: the handlers of the interactions.  A payload carries the *)
(* blocks of the message as the user saw them, the user, the label of the  *)
(* button clicked and the action code of the menu entry selected.  A       *)
(* handler yields the blocks it sends back with res(payload.message) and   *)
(* the calls it makes on the web client.  The fallback text of the message *)
(* is left out.                                                            *)

\* payload.message.blocks = undefined
NoBlocks == << >>

Payload(blocks, userId, label, selected) ==
    [blocks |-> blocks, user |-> userId, text |-> label, selected |-> selected]

\* A call on the web client: chat.postEphemeral, chat.delete, chat.postMessage.
Call(method, text, blocks) == [method |-> method, text |-> text, blocks |-> blocks]

\* isPollAuthor with every user passing as the author.
isPollAuthorAnyone(payload, poll) == TRUE

isPollAuthor(payload, poll) == Mention(payload.user) = getAuthor(poll)

postEphemeralOnlyAuthor(verb, object) ==
    Call("postEphemeral",
         <<"Only the poll author may ", verb, " the ", object, ".">>, NoBlocks)

\* onButtonAction that does not put the blocks of the poll into the payload.
onButtonActionNoWrite(payload) ==
    LET poll == vote(Poll(payload.blocks), payload.text, payload.user)
    IN  [blocks |-> payload.blocks,
         calls |-> <<Call("postEphemeral",
                          IF getLockedStatus(poll)
                          THEN <<"You cannot vote after the poll has been locked!">>
                          ELSE <<"Vote changed!">>, NoBlocks)>>]

onButtonAction(payload) ==
    LET poll == vote(Poll(payload.blocks), payload.text, payload.user)
    IN  [blocks |-> getBlocks(poll),
         calls |-> <<Call("postEphemeral",
                          IF getLockedStatus(poll)
                          THEN <<"You cannot vote after the poll has been locked!">>
                          ELSE <<"Vote changed!">>, NoBlocks)>>]

\* onResetSelected without the test of the lock.
onResetSelectedNoLockCheck(payload, poll) ==
    [blocks |-> getBlocks(resetVote(poll, payload.user)), calls |-> << >>]

onResetSelected(payload, poll) ==
    IF getLockedStatus(poll)
    THEN [blocks |-> payload.blocks,
          calls |-> <<Call("postEphemeral",
                <<"You cannot reset your vote after the poll has been locked.">>,
                NoBlocks)>>]
    ELSE [blocks |-> getBlocks(resetVote(poll, payload.user)), calls |-> << >>]

\* The author's selection deletes the message and, 300 ms later, posts its
\* blocks again.
onBottomSelected(payload, poll) ==
    IF isPollAuthor(payload, poll)
    THEN [blocks |-> getBlocks(poll),
          calls |-> <<Call("delete", << >>, NoBlocks),
                      Call("postMessage", <<"Poll moved!">>, getBlocks(poll))>>]
    ELSE [blocks |-> getBlocks(poll),
          calls |-> <<postEphemeralOnlyAuthor("move", "poll")>>]

onLockSelected(payload, poll) ==
    IF isPollAuthor(payload, poll)
    THEN [blocks |-> getBlocks(lockPoll(poll)), calls |-> << >>]
    ELSE [blocks |-> payload.blocks,
          calls |-> <<postEphemeralOnlyAuthor("lock", "poll")>>]

onUnlockSelected(payload, poll) ==
    IF isPollAuthor(payload, poll)
    THEN [blocks |-> getBlocks(unlockpoll(poll)), calls |-> << >>]
    ELSE [blocks |-> payload.blocks,
          calls |-> <<postEphemeralOnlyAuthor("unlock", "poll")>>]

onDeleteSelected(payload, poll) ==
    IF isPollAuthor(payload, poll)
    THEN [blocks |-> NoBlocks, calls |-> << >>]
    ELSE [blocks |-> payload.blocks,
          calls |-> <<postEphemeralOnlyAuthor("delete", "poll")>>]

onStaticSelectAction(payload) ==
    LET poll == Poll(payload.blocks)
    IN  CASE payload.selected = <<"reset">> -> onResetSelected(payload, poll)
          [] payload.selected = <<"bottom">> -> onBottomSelected(payload, poll)
          [] payload.selected = <<"lock">> -> onLockSelected(payload, poll)
          [] payload.selected = <<"unlock">> -> onUnlockSelected(payload, poll)
          [] payload.selected = <<"delete">> -> onDeleteSelected(payload, poll)
          [] OTHER -> [blocks |-> payload.blocks, calls |-> << >>]

\* The handler the interaction is routed to: a payload with no menu entry
\* selected comes from a button.
handle(payload) ==
    IF payload.selected = << >> THEN onButtonAction(payload)
    ELSE onStaticSelectAction(payload)

\* The text for the user when a handler caught an exception.
errorMsg ==
    <<"An error occurred; please contact the administrators for assistance.">>

\* handleActionException: the handler returns the failure text; the
\* exception was thrown before res(payload.message), so nothing was sent.
handleActionException == [text |-> errorMsg, sent |-> FALSE, unhandled |-> {}]

\* The calls of a handler that fail.  Each call on the web client returns
\* a promise; a failing call rejects its promise and throws nothing in the
\* handler.  The rejection of chat.delete is caught and logged where the
\* call is made; no other promise is awaited or given a catch.
rejectedCalls(calls, failing) ==
    {k \in 1..Len(calls) : calls[k].method \in failing}

unhandledRejections(calls, failing) ==
    {k \in rejectedCalls(calls, failing) : calls[k].method # "delete"}

\* The try and catch of onButtonAction and onStaticSelectAction: the text
\* returned to the user, whether res(payload.message) was called, and the
\* rejected promises no one handles.  Only an exception thrown inside the
\* try, which is that of new Poll, reaches the catch.
request(payload, failing) ==
    IF constructorThrows(payload.blocks) # "nothing"
    THEN handleActionException
    ELSE [text |-> IF payload.selected = << >>
                   THEN <<"Vote processing!">>
                   ELSE <<"Processing request!">>,
          sent |-> TRUE,
          unhandled |-> unhandledRejections(handle(payload).calls, failing)]

-----------------------------------------------------------------------------
(* Inputs.                                                                 *)

UserId(i) == <<"U">> \o NatToStr(i)
Users == {UserId(i) : i \in 1..NumUsers}
Author == Mention(UserId(1))

Question == <<"Lunch?">>
A == <<"Pizza">>
B == <<"Tacos">>
C == <<"Soup">>
D == <<"Rice">>

\* The command bodies, split into lines, the polls are created from.
PollInputs == {
    <<Question, A, A>>,
    <<Question, A, B, C, D, A>>,
    <<Question>>,
    <<Question, <<"1", "0">>, <<"2">>>>,
    <<<<"Why", " ", "(Anonymous)", "?">>, A>>,
    <<<<"Multiple">>, Question, A, B, A, A>>,
    <<<<"ANON", " ", "multiple">>, Question, A, B>>,
    <<<<"multiple", " ", "choice">>, Question, <<"R", "&amp;", "B">>>>,
    <<<<"anon">>>>
}

\* The labels a button click can carry: the labels of the poll's buttons and
\* one label no button has.
UnknownLabel == <<"Nope">>

buttonsOf(msg) == visitedButtons(msg, 2, Len(msg))

LabelsOf(msg) ==
    {buttonsOf(msg)[k].text : k \in 1..Len(buttonsOf(msg))} \cup {UnknownLabel}

-----------------------------------------------------------------------------
(* The state machine: one poll message and the operations applied to it.   *)

Init ==
    /\ parameters \in PollInputs
    /\ message = createPoll(Author, parameters)
    /\ lockApplied = FALSE
    /\ inflight = {}
    /\ landed = << >>

Vote ==
    \E u \in Users : \E l \in LabelsOf(message) :
        /\ message' = applyVote(message, l, u)
        /\ UNCHANGED <<parameters, lockApplied, inflight, landed>>

Reset ==
    \E u \in Users :
        /\ message' = applyReset(message, u)
        /\ UNCHANGED <<parameters, lockApplied, inflight, landed>>

Lock ==
    /\ message' = applyLock(message)
    /\ lockApplied' = TRUE
    /\ UNCHANGED <<parameters, inflight, landed>>

Unlock ==
    /\ message' = applyUnlock(message)
    /\ lockApplied' = FALSE
    /\ UNCHANGED <<parameters, inflight, landed>>

Next == Vote \/ Reset \/ Lock \/ Unlock

Spec == Init /\ [][Next]_vars

\* The polls that only take votes and resets.
NextVotes == Vote \/ Reset

SpecVotes == Init /\ [][NextVotes]_vars

-----------------------------------------------------------------------------
(* The creation of a poll from a command body of any length.               *)

\* Largest number of option lines of a command.
MaxOptions == 11

OptionLine(i) ==
    IF i = 2 THEN <<"R", "&amp;", "B">> ELSE <<"Opt", " ">> \o NatToStr(i)

OptionLines(n) == Seq1([i \in 1..n |-> OptionLine(i)])

\* First lines that name modifiers, and first lines that are the question.
ModifierLines ==
    {<<"multiple">>, <<"Anon">>, <<"anon", " ", "MULTIPLE">>,
     <<"multiple", " ", "choice">>}

QuestionLines ==
    {Question, <<"Poll", " ", "anon">>, <<"Why", " ", "(Anonymous)", "?">>}

\* A modifier line that reads like the title made from the line after it.
EchoCommand == <<<<"multiple">> \o MultipleSuffix, <<"multiple">>, A, B>>

CreateInputs ==
    {<<q>> \o OptionLines(n) : q \in QuestionLines, n \in 0..MaxOptions}
        \cup {<<m, Question>> \o OptionLines(n) :
                m \in ModifierLines, n \in 0..MaxOptions}
        \cup {<<m>> : m \in ModifierLines}
        \cup {EchoCommand}

InitCreate ==
    /\ parameters \in CreateInputs
    /\ message = NoBlocks
    /\ lockApplied = FALSE
    /\ inflight = {}
    /\ landed = << >>

Create ==
    /\ message = NoBlocks
    /\ message' = createPoll(Author, parameters)
    /\ UNCHANGED <<parameters, lockApplied, inflight, landed>>

NextCreate == Create

SpecCreate == InitCreate /\ [][NextCreate]_vars

-----------------------------------------------------------------------------
(* The handlers at work on one stored message.  A user acts on the message *)
(* as it is stored (Receive): the payload carries those blocks.  The       *)
(* handler answers from the payload alone, and its answer replaces the     *)
(* stored blocks (Respond), whatever has been stored since.  The move to   *)
(* the bottom, which puts a new message in place of the stored one, is not *)
(* among the interactions here.                                            *)

\* Number of interactions sent for the poll.
MaxInteractions == 2

InteractInputs == {<<Question, A, B>>, <<<<"multiple">>, Question, A, B>>}

InteractCodes == {<<"reset">>, <<"lock">>, <<"unlock">>, <<"delete">>}

InteractionsOf(msg, u) ==
    {Payload(msg, u, l, << >>) : l \in LabelsOf(msg) \ {UnknownLabel}}
        \cup {Payload(msg, u, << >>, c) : c \in InteractCodes}

InitInteract ==
    /\ parameters \in InteractInputs
    /\ message = createPoll(Author, parameters)
    /\ lockApplied = FALSE
    /\ inflight = {}
    /\ landed = << >>

Receive ==
    /\ message # NoBlocks
    /\ Len(landed) + Cardinality(inflight) < MaxInteractions
    /\ \E u \in Users : \E p \in InteractionsOf(message, u) \ inflight :
          inflight' = inflight \cup {p}
    /\ UNCHANGED <<parameters, message, lockApplied, landed>>

Respond ==
    \E p \in inflight :
        /\ message' = handle(p).blocks
        /\ inflight' = inflight \ {p}
        /\ landed' = Append(landed, p)
        /\ UNCHANGED <<parameters, lockApplied>>

NextInteract == Receive \/ Respond

SpecInteract == InitInteract /\ [][NextInteract]_vars

-----------------------------------------------------------------------------
(* The move to the bottom, call by call.  onStaticSelectAction runs        *)
(* onBottomSelected up to its await of chat.delete, calls                  *)
(* res(payload.message) and returns.  When the delete has completed,       *)
(* failed or not, onBottomSelected sets a timer of 300 ms, and the timer   *)
(* posts the blocks of the payload as a new message.  Every call completes *)
(* on the platform with success or with failure.  An answer arriving for a *)
(* message that is deleted changes nothing.                                *)

Pending(call, payload) == [call |-> call, payload |-> payload]

Completed(item, ok) == [call |-> item.call, payload |-> item.payload, ok |-> ok]

BottomPayloads(msg) == {Payload(msg, u, << >>, <<"bottom">>) : u \in Users}

InitBottom ==
    /\ parameters \in InteractInputs
    /\ message = createPoll(Author, parameters)
    /\ lockApplied = FALSE
    /\ inflight = {}
    /\ landed = << >>

\* No selection of the move has been made.
Idle == inflight = {} /\ landed = << >>

\* Votes and a lock before the move is selected.
Prepare == Idle /\ (Vote \/ Lock)

\* onStaticSelectAction with "bottom" selected, up to its return: the first
\* call of onBottomSelected is issued, then res(payload.message).
SelectBottom ==
    /\ Idle
    /\ \E p \in BottomPayloads(message) :
          inflight' = {Pending(handle(p).calls[1], p),
                       Pending(Call("res", <<"Poll moved!">>, handle(p).blocks), p)}
    /\ UNCHANGED <<parameters, message, lockApplied, landed>>

\* A call completes.  A delete that succeeds takes the message away; the
\* answer replaces the blocks of the message; after the delete, succeeded
\* or failed (.catch logs the error), the timer is set.
CallLands ==
    \E item \in inflight : \E ok \in BOOLEAN :
        /\ item.call.method # "setTimeout"
        /\ message' = CASE ok /\ item.call.method = "delete" -> NoBlocks
                        [] ok /\ item.call.method = "res" /\ message # NoBlocks
                              -> item.call.blocks
                        [] OTHER -> message
        /\ inflight' = (inflight \ {item}) \cup
                IF item.call.method = "delete"
                THEN {Pending(Call("setTimeout", << >>, NoBlocks), item.payload)}
                ELSE {}
        /\ landed' = Append(landed, Completed(item, ok))
        /\ UNCHANGED <<parameters, lockApplied>>

\* The timer fires: postMessage with the text and the blocks of the payload.
TimerFires ==
    \E item \in inflight :
        /\ item.call.method = "setTimeout"
        /\ inflight' = (inflight \ {item})
                \cup {Pending(handle(item.payload).calls[2], item.payload)}
        /\ UNCHANGED <<parameters, message, lockApplied, landed>>

NextBottom == Prepare \/ SelectBottom \/ CallLands \/ TimerFires

SpecBottom == InitBottom /\ [][NextBottom]_vars


-----------------------------------------------------------------------------
(* Vocabulary of the properties.                                           *)

\* The voter identifiers of a button: its votes string without the
\* placeholder.
VotersOf(button) == Splice1(Split(button.value, ","), 0)

Occurs(u, button) == IndexOf(VotersOf(button), u) # -1

\* The votes strings of all options, in scan order.
ValuesOf(bs) == Seq1([k \in 1..Len(bs) |-> bs[k].value])
VotesStrings(msg) == ValuesOf(buttonsOf(msg))

\* The blocks after the divider, and those of them that are not the marker.
ResultLines(msg) == SliceFrom(msg, getDividerId(msg) + 1)
IsMarker(block) == block.type = "section" /\ block.text = LockGlyph
TallyLines(msg) == SelectSeq(ResultLines(msg), LAMBDA b : ~IsMarker(b))

\* The part of a result line before the names: `*${count}* ${label} » `
LineHead(count, label) ==
    <<"*">> \o NatToStr(count) \o <<"*", " ">> \o label \o <<" ", "»", " ">>

IsLineFor(block, count, label) ==
    block.type = "section" /\ StartsAt(block.text, LineHead(count, label), 0)

\* The option buttons with the given label, and the real labels.
LabelledIn(bs, l) == {k \in 1..Len(bs) : bs[k].text = l}
ButtonsLabelled(msg, l) == LabelledIn(buttonsOf(msg), l)
RealLabels(msg) == LabelsOf(msg) \ {UnknownLabel}

\* The options in whose voter list u occurs.
HoldersIn(bs, u) == {k \in 1..Len(bs) : Occurs(u, bs[k])}
Holders(msg, u) == HoldersIn(buttonsOf(msg), u)

Unlocked(msg) == ~Poll(msg).isLocked

-----------------------------------------------------------------------------
\* C1. Exclusivity: in a single-choice poll every user identifier is in the
\* voter list of at most one option, and a vote for b after a vote for a
\* takes the user out of a and puts them into b.
MovedIn(bs, a, b, u) ==
    /\ LabelledIn(bs, a) \cap HoldersIn(bs, u) = {}
    /\ LabelledIn(bs, b) \subseteq HoldersIn(bs, u)

C1_Exclusivity ==
    ~Poll(message).multiple =>
        /\ \A u \in Users : Cardinality(Holders(message, u)) <= 1
        /\ Unlocked(message) =>
            \A u \in Users : \A a, b \in RealLabels(message) :
                a # b =>
                    MovedIn(buttonsOf(applyVote(applyVote(message, a, u), b, u)),
                            a, b, u)

-----------------------------------------------------------------------------
\* C2. Lock gating: once applyLock has been applied and no applyUnlock after
\* it, applyVote of any user for any label leaves every option's votes
\* string as it is.
C2_LockGating ==
    lockApplied =>
        \A u \in Users : \A l \in LabelsOf(message) :
            VotesStrings(applyVote(message, l, u)) = VotesStrings(message)

\* A locked poll with a standing vote and a user who, were the poll open,
\* could still add a vote.
C2_Witness ==
    /\ lockApplied
    /\ \E u \in Users : Holders(message, u) # {}
    /\ \E u \in Users : \E l \in RealLabels(message) :
            ButtonsLabelled(message, l) \cap Holders(message, u) = {}

-----------------------------------------------------------------------------
\* C3. Round trip of the flags: decoding the message yields multiple and
\* anonymous exactly as the modifier line configured them, in the created
\* message and in every message reached from it, and the created message
\* decodes as not locked.
ModifierTokens(params) ==
    LET split == Split(At(params, 0), " ")
    IN  IF Len(split) = 1 THEN Append(split, <<" ">>) ELSE split

HasModifierLine(params) ==
    ToLowerCase(ModifierTokens(params)[1]) \in {<<"multiple">>, <<"anon">>}

Configured(params, flag) ==
    /\ HasModifierLine(params)
    /\ \/ ToLowerCase(ModifierTokens(params)[1]) = flag
       \/ ToLowerCase(ModifierTokens(params)[2]) = flag

C3_FlagRoundTrip ==
    /\ Poll(message).multiple = Configured(parameters, <<"multiple">>)
    /\ Poll(message).anonymous = Configured(parameters, <<"anon">>)
    /\ message = createPoll(Author, parameters) => ~Poll(message).isLocked

-----------------------------------------------------------------------------
\* C4. Vote idempotence: on an unlocked message a second applyVote of the
\* same user for the same label returns the blocks of the first, with the
\* user exactly once in the voter list of the option voted for.
OnceIn(bs, l, u) ==
    \A k \in LabelledIn(bs, l) :
        Len(SelectSeq(VotersOf(bs[k]), LAMBDA v : v = u)) = 1

SecondVoteSame(m1, l, u) ==
    applyVote(m1, l, u) = m1 /\ OnceIn(buttonsOf(m1), l, u)

C4_VoteIdempotent ==
    Unlocked(message) =>
        \A u \in Users : \A l \in LabelsOf(message) :
            SecondVoteSame(applyVote(message, l, u), l, u)

\* An unlocked poll in which some user re-clicks the option they hold.
C4_Witness ==
    /\ Unlocked(message)
    /\ \E u \in Users : \E l \in RealLabels(message) :
          /\ ButtonsLabelled(message, l) \subseteq Holders(message, u)
          /\ applyVote(message, l, u) = message


-----------------------------------------------------------------------------
\* The count a result line of label l carries: the number of voters of the
\* last option labelled l.
CountIn(bs, l) ==
    LET ks == LabelledIn(bs, l)
    IN  Len(VotersOf(bs[CHOOSE k \in ks : \A j \in ks : j <= k]))

\* The result lines that start `*${count}* ${l} » `.
LinesAbout(lines, count, l) ==
    {i \in 1..Len(lines) : IsLineFor(lines[i], count, l)}

\* The names part of such a line.
NamesPart(line, count, l) == SliceFrom(line.text, Len(LineHead(count, l)))

\* applyVote in a multiple-choice poll takes no voter out of any option.
KeepsVoters(before, after) ==
    \A v \in Users : HoldersIn(before, v) \subseteq HoldersIn(after, v)

VoteKeepsVoters ==
    \A u \in Users : \A l \in LabelsOf(message) :
        KeepsVoters(buttonsOf(message), buttonsOf(applyVote(message, l, u)))

\* In the blocks m2 user u holds every option labelled l, and l has exactly
\* one result line, whose names part satisfies Shown.
HeldAndShown(bs, lines, count, l, u, Shown(_)) ==
    /\ LabelledIn(bs, l) \subseteq HoldersIn(bs, u)
    /\ Cardinality(LinesAbout(lines, count, l)) = 1
    /\ \A i \in LinesAbout(lines, count, l) : Shown(NamesPart(lines[i], count, l))

Accumulated(m2, l, u, fresh, Shown(_)) ==
    /\ HeldAndShown(buttonsOf(m2), ResultLines(m2), CountIn(buttonsOf(m2), l),
                    l, u, Shown)
    /\ fresh => CountIn(buttonsOf(m2), l) = 1

\* Nobody holds an option labelled a or b.
Fresh(bs, a, b) ==
    \A v \in Users : \A k \in HoldersIn(bs, v) : bs[k].text \notin {a, b}

\* After votes of u for a and then b: u holds both, and each of the two has
\* one result line, whose names part satisfies Shown(names, u); the count is
\* 1 when nobody held a or b before.
AccumulatedBoth(m2, a, b, u, fresh, Shown(_)) ==
    \A l \in {a, b} : Accumulated(m2, l, u, fresh, Shown)

AccumulatesWith(Shown(_, _)) ==
    \A u \in Users : \A a, b \in RealLabels(message) :
        a # b =>
            AccumulatedBoth(applyVote(applyVote(message, a, u), b, u), a, b, u,
                            Fresh(buttonsOf(message), a, b),
                            LAMBDA names : Shown(names, u))

\* C5. Accumulation: in a multiple-choice poll applyVote removes no voter,
\* and after applyVote(a, u) and applyVote(b, u) for distinct a and b the
\* user is a voter of both and both have one result line that names u, with
\* count 1.
C5_Accumulation ==
    Poll(message).multiple =>
        /\ VoteKeepsVoters
        /\ AccumulatesWith(LAMBDA names, u : Includes(names, Mention(u)))

\* C5 as amended: the same for an unlocked multiple-choice poll, where the
\* result lines name u when the poll is not anonymous and show the redaction
\* token in place of every name when it is.
C5_AccumulationAmended ==
    Poll(message).multiple =>
        /\ VoteKeepsVoters
        /\ Unlocked(message) =>
            AccumulatesWith(LAMBDA names, u :
                IF Poll(message).anonymous THEN names = HiddenToken
                ELSE Includes(names, Mention(u)))

\* An unlocked multiple-choice poll in which a user holds two options with
\* different labels, each shown on its own result line.
C5_Witness ==
    /\ Poll(message).multiple
    /\ Unlocked(message)
    /\ \E u \in Users : \E a, b \in RealLabels(message) :
          /\ a # b
          /\ ButtonsLabelled(message, a) \cup ButtonsLabelled(message, b)
                \subseteq Holders(message, u)
          /\ message = applyVote(applyVote(message, a, u), b, u)
          /\ LinesAbout(ResultLines(message), CountIn(buttonsOf(message), a), a) # {}
          /\ LinesAbout(ResultLines(message), CountIn(buttonsOf(message), b), b) # {}

-----------------------------------------------------------------------------
\* C6. Reset in a multiple-choice poll: after applyReset(m, u) the user u is
\* in the voter list of no option of any option group.
C6_ResetMultiple ==
    Poll(message).multiple =>
        \A u \in Users : Holders(applyReset(message, u), u) = {}

\* The option groups (0-based block positions) in which u holds an option.
GroupsHeld(msg, u) ==
    {i \in 2..(Len(msg) - 1) :
        /\ At(msg, i).type = "actions"
        /\ \E e \in 1..Len(At(msg, i).elements) :
              /\ At(msg, i).elements[e].type = "button"
              /\ Occurs(u, At(msg, i).elements[e])}

\* A multiple-choice poll in which a user holds three or more options in
\* two option groups.
C6_Witness ==
    /\ Poll(message).multiple
    /\ \E u \in Users :
          /\ Cardinality(Holders(message, u)) >= 3
          /\ Cardinality(GroupsHeld(message, u)) >= 2
          /\ applyReset(message, u) # message

-----------------------------------------------------------------------------
\* C7. Reset in a single-choice poll: applyReset(m, u) takes u out of the
\* first option in scan order that holds u and changes no other option.
OnlyFirstRemoved(before, after, u) ==
    LET held == HoldersIn(before, u)
        first == CHOOSE k \in held : \A j \in held : k <= j
    IN  held # {} =>
            /\ first \notin HoldersIn(after, u)
            /\ \A k \in 1..Len(before) :
                  k # first => after[k].value = before[k].value

C7_ResetSingle ==
    ~Poll(message).multiple =>
        \A u \in Users :
            OnlyFirstRemoved(buttonsOf(message),
                             buttonsOf(applyReset(message, u)), u)


-----------------------------------------------------------------------------
\* The number of voters of every option, in scan order.
CountsOf(bs) == Seq1([k \in 1..Len(bs) |-> Len(VotersOf(bs[k]))])
VoteCounts(msg) == CountsOf(buttonsOf(msg))

\* No tally line holds a user identifier; each ends in the redaction token.
NoneShown(lines) ==
    \A i \in 1..Len(lines) :
        /\ \A u \in Users : ~Includes(lines[i].text, u)
        /\ lines[i].text[Len(lines[i].text)] = HiddenToken[1]

NoVoterShown == NoneShown(TallyLines(message))

\* The lines name every voter of every option that has voters.
AllListed(bs, lines) ==
    \A k \in 1..Len(bs) : \A u \in Users :
        Occurs(u, bs[k]) =>
            \E i \in LinesAbout(lines, Len(VotersOf(bs[k])), bs[k].text) :
                Includes(lines[i].text, Mention(u))

RevealListsAll ==
    AllListed(buttonsOf(message), generateResults(Poll(message), TRUE))

\* C8. Anonymity: an anonymous poll shows no voter identifier in any result
\* line, the revealed results list every voter, and two histories with the
\* same vote counts (here: a history and its extension by one operation
\* that keeps every count and the lock state) show the same result section.
C8_Anonymity ==
    /\ [](Configured(parameters, <<"anon">>) => NoVoterShown /\ RevealListsAll)
    /\ [][(/\ Configured(parameters, <<"anon">>)
           /\ VoteCounts(message') = VoteCounts(message)
           /\ Poll(message').isLocked = Poll(message).isLocked)
          => ResultLines(message') = ResultLines(message)]_vars

-----------------------------------------------------------------------------
\* One result line per option with a voter, carrying the option's count, and
\* none for an option without voters.
TallyCorrectOf(bs, lines) ==
    LET voted == {k \in 1..Len(bs) : Len(VotersOf(bs[k])) > 0}
    IN  /\ Len(lines) = Cardinality(voted)
        /\ \A k \in voted :
              Cardinality(LinesAbout(lines, Len(VotersOf(bs[k])), bs[k].text)) = 1
        /\ \A k \in (1..Len(bs)) \ voted : \A n \in 1..NumUsers :
              LinesAbout(lines, n, bs[k].text) = {}

TallyCorrect(msg) == TallyCorrectOf(buttonsOf(msg), ResultLines(msg))

\* C9. Tally correctness: after any applyVote or applyReset on an unlocked
\* poll the result section has exactly one line per option with voters, with
\* that option's count, and no line for an option without voters.
C9_TallyCorrect ==
    Unlocked(message) =>
        \A u \in Users :
            /\ TallyCorrect(applyReset(message, u))
            /\ \A l \in LabelsOf(message) : TallyCorrect(applyVote(message, l, u))

-----------------------------------------------------------------------------
\* C10. Lock marker: the block after the divider is the lock marker exactly
\* when the last lock-state operation was applyLock; the marker occurs at
\* most once; decoding reports locked exactly then, and not locked when no
\* block follows the divider.
MarkerMatches(after, locked, lockedByOp) ==
    /\ (Len(after) > 0 /\ IsMarker(after[1])) <=> lockedByOp
    /\ Len(SelectSeq(after, IsMarker)) <= 1
    /\ locked <=> lockedByOp
    /\ Len(after) = 0 => ~locked

-----------------------------------------------------------------------------
\* The shapes of the blocks of a poll message.
IsTitle(block) == block.type = "section"

IsAuthorContext(block) ==
    /\ block.type = "context"
    /\ Len(block.elements) = 1
    /\ StartsAt(block.elements[1].text, AskedBy, 0)

IsOptionGroup(block) ==
    /\ block.type = "actions"
    /\ Len(block.elements) <= ButtonsPerBlock
    /\ \A e \in 1..Len(block.elements) : block.elements[e].type = "button"

IsControlMenu(block) ==
    /\ block.type = "actions"
    /\ Len(block.elements) = 1
    /\ block.elements[1].type = "static_select"

IsResultLine(block) == block.type = "section"

\* Title, AuthorContext, OptionGroups, one ControlMenu, one Divider, result
\* lines; d is the position of the divider.
LayoutOf(msg, d) ==
    /\ d >= 3
    /\ IsTitle(At(msg, 0))
    /\ IsAuthorContext(At(msg, 1))
    /\ \A i \in 2..(d - 2) : IsOptionGroup(At(msg, i))
    /\ IsControlMenu(At(msg, d - 1))
    /\ At(msg, d).type = "divider"
    /\ \A i \in (d + 1)..(Len(msg) - 1) : IsResultLine(At(msg, i))
    /\ Cardinality({i \in 0..(Len(msg) - 1) : At(msg, i).type = "divider"}) = 1
    /\ Cardinality({i \in 0..(Len(msg) - 1) : IsControlMenu(At(msg, i))}) = 1

Layout(msg) == LayoutOf(msg, getDividerId(msg))

\* C11. Layout: every message created by createPoll and reached by votes,
\* resets, locks and unlocks is the title, the author context, option
\* groups only, exactly one control menu, exactly one divider right after
\* it, and result lines only; the title and the author context are those
\* the poll was created with.
C11_Layout ==
    /\ Layout(message)
    /\ At(message, 0) = At(createPoll(Author, parameters), 0)
    /\ At(message, 1) = buildContextBlock(AskedBy \o Author)

\* A poll with two option groups that was locked and unlocked and locked
\* again and shows the marker and a tally line.
C11_Witness ==
    /\ lockApplied
    /\ getDividerId(message) >= 5
    /\ Len(ResultLines(message)) >= 2
    /\ message = applyLock(applyUnlock(message))
    /\ message # applyUnlock(message)

-----------------------------------------------------------------------------
\* C12. Unlock undoes lock: for an unlocked message reached from createPoll
\* by votes and resets only, the fresh poll included, applyUnlock of
\* applyLock of the message is the message, block for block; the locked
\* message in between carries the marker and the unlock entry.
HasMarker(msg) ==
    \E i \in 1..Len(ResultLines(msg)) : IsMarker(ResultLines(msg)[i])

MenuOptions(msg) == At(msg, getDividerId(msg) - 1).elements[1].options

UnlockUndoes(m, locked) ==
    /\ applyUnlock(locked) = m
    /\ HasMarker(locked)
    /\ MenuOptions(locked)[2] = UnlockOption
    /\ ~HasMarker(m)
    /\ MenuOptions(m)[2] = LockOption

C12_UnlockInverse ==
    Unlocked(message) => UnlockUndoes(message, applyLock(message))

\* A poll with votes of two users, so that the lock puts the marker before
\* tally lines that the unlock has to keep.
C12_Witness ==
    /\ Unlocked(message)
    /\ Len(ResultLines(message)) >= 2
    /\ \A u \in Users : Holders(message, u) # {}
    /\ Len(ResultLines(applyLock(message))) = Len(ResultLines(message)) + 1
    /\ applyUnlock(applyLock(message)) = message

-----------------------------------------------------------------------------
\* The action codes of the menu entries, in order.
MenuCodes(msg) ==
    Seq1([k \in 1..Len(MenuOptions(msg)) |-> MenuOptions(msg)[k].value])

\* From m to m2 nothing changed but the result lines and the second entry
\* of the control menu, which now has the given action code.
LockFrame(m, m2, code) ==
    /\ At(m2, 0) = At(m, 0)
    /\ At(m2, 1) = At(m, 1)
    /\ buttonsOf(m2) = buttonsOf(m)
    /\ Slice(m2, 0, getDividerId(m2) - 1) = Slice(m, 0, getDividerId(m) - 1)
    /\ Len(MenuOptions(m2)) = 4
    /\ \A k \in {1, 3, 4} : MenuOptions(m2)[k] = MenuOptions(m)[k]
    /\ MenuCodes(m2) = <<<<"reset">>, code, <<"bottom">>, <<"delete">>>>

\* C13. Frame of lock and unlock: applyLock and applyUnlock keep the title,
\* the author context, every option label and every votes string; of the
\* control menu only the second entry changes, to the action code unlock on
\* lock and to lock on unlock; and a message has the unlock entry exactly
\* when it carries the lock marker.
C13_LockFrame ==
    /\ LockFrame(message, applyLock(message), <<"unlock">>)
    /\ LockFrame(message, applyUnlock(message), <<"lock">>)
    /\ (MenuOptions(message)[2].value = <<"unlock">>) <=> HasMarker(message)

\* A locked poll with votes: the unlock changes the menu entry and the
\* result lines, the lock of the result changes them back.
C13_Witness ==
    /\ lockApplied
    /\ \E u \in Users : Holders(message, u) # {}
    /\ MenuOptions(message)[2].value = <<"unlock">>
    /\ MenuOptions(applyUnlock(message))[2].value = <<"lock">>
    /\ applyLock(applyUnlock(message)) = message

-----------------------------------------------------------------------------
\* Messages that break the layout, made from a well-formed one: the divider
\* taken out, position 0 not a title, position 1 not an author context.
WithoutDivider(msg) == SelectSeq(msg, LAMBDA b : b.type # "divider")

WithBlockAt(msg, i, block) ==
    Seq1([k \in 1..Len(msg) |-> IF k = i + 1 THEN block ELSE msg[k]])

MalformedOf(msg) ==
    {WithoutDivider(msg)}
        \cup {WithBlockAt(msg, 0, b) :
                b \in {DividerBlock, At(msg, 1), At(msg, 2)}}
        \cup {WithBlockAt(msg, 1, b) :
                b \in {DividerBlock, At(msg, 0), At(msg, 2)}}

\* C14. Malformed input is rejected: decoding a block list without a
\* divider, or whose position 0 is not a title, or whose position 1 is not
\* an author context, raises an error and yields no Poll.  (The source has
\* no MalformedPollError; any error thrown counts as the rejection.)
C14_MalformedRejected ==
    \A c \in MalformedOf(message) :
        ~Layout(c) /\ constructorThrows(c) # "nothing"

-----------------------------------------------------------------------------
\* The action codes of the control menu, and those reserved to the author.
SelectCodes == {<<"reset">>, <<"bottom">>, <<"lock">>, <<"unlock">>, <<"delete">>}
AuthorOnlyCodes == {<<"bottom">>, <<"lock">>, <<"unlock">>, <<"delete">>}

\* The interactions a user can send for a message: a click on a button and
\* a selection in the control menu.
PayloadsOf(msg, u) ==
    {Payload(msg, u, l, << >>) : l \in LabelsOf(msg)}
        \cup {Payload(msg, u, << >>, c) : c \in SelectCodes}

Methods(calls) == {calls[k].method : k \in 1..Len(calls)}

\* The answer hands the received blocks back and neither deletes nor posts.
HandsBack(answer, msg) ==
    /\ answer.blocks = msg
    /\ Methods(answer.calls) \cap {"delete", "postMessage"} = {}

LockStateChanged(answer, msg) ==
    answer.blocks # NoBlocks /\ Poll(answer.blocks).isLocked # Poll(msg).isLocked

-----------------------------------------------------------------------------
\* The user of payload p holds no option labelled as the button of p in the
\* blocks p carries, which are unlocked: the click is a new vote.
NewVote(p) ==
    /\ p.selected = << >>
    /\ Unlocked(p.blocks)
    /\ ButtonsLabelled(p.blocks, p.text) # {}
    /\ ButtonsLabelled(p.blocks, p.text) \cap Holders(p.blocks, p.user) = {}

\* Of two answers computed from the same blocks the later one is what is
\* stored; of two new votes of different users the later is in, the
\* earlier is not.
LaterWins(msg, earlier, later) ==
    /\ msg = handle(later).blocks
    /\ (NewVote(earlier) /\ NewVote(later) /\ earlier.user # later.user) =>
          /\ ButtonsLabelled(msg, later.text) \subseteq Holders(msg, later.user)
          /\ Holders(msg, earlier.user) = Holders(later.blocks, earlier.user)
          /\ msg # handle(Payload(handle(earlier).blocks, later.user,
                                  later.text, later.selected)).blocks

\* C16. Last write wins: when the last two answers that replaced the
\* message were computed from the same blocks, the message is the later
\* answer alone; of two simultaneous new votes of different users exactly
\* the later one remains, and the message is not the two applied in turn.
C16_LastWriteWins ==
    (/\ Len(landed) >= 2
     /\ landed[Len(landed) - 1].blocks = landed[Len(landed)].blocks)
        => LaterWins(message, landed[Len(landed) - 1], landed[Len(landed)])

\* Two users voted for different options of the same unvoted poll and both
\* answers have replaced the message.
C16_Witness ==
    /\ Len(landed) >= 2
    /\ landed[Len(landed) - 1].blocks = landed[Len(landed)].blocks
    /\ NewVote(landed[Len(landed) - 1])
    /\ NewVote(landed[Len(landed)])
    /\ landed[Len(landed) - 1].user # landed[Len(landed)].user
    /\ landed[Len(landed) - 1].text # landed[Len(landed)].text

-----------------------------------------------------------------------------
\* The line of the question and the lines of the options of a command: from
\* line 1 and lines 2.. when token 0 of line 0 is a modifier, from line 0
\* and lines 1.. when it is not.
QuestionIndex(params) == IF HasModifierLine(params) THEN 1 ELSE 0

OptionLabels(params) ==
    LET lines == SliceFrom(params, QuestionIndex(params) + 1)
    IN  Seq1([k \in 1..Len(lines) |-> cleanLabel(lines[k])])

LabelsIn(bs) == Seq1([k \in 1..Len(bs) |-> bs[k].text])

TitleFrom(title, params) ==
    IF HasModifierLine(params)
    THEN StartsAt(title, At(params, 1), 0) /\ title # At(params, 1)
    ELSE title = At(params, 0)

BuiltFrom(msg, params) ==
    /\ TitleFrom(getTitleFromMsg(msg), params)
    /\ LabelsIn(buttonsOf(msg)) = OptionLabels(params)
    /\ \A k \in 1..Len(buttonsOf(msg)) : VotersOf(buttonsOf(msg)[k]) = << >>
    /\ Layout(msg)
    /\ At(msg, 1) = buildContextBlock(AskedBy \o Author)
    /\ getDividerId(msg) = Len(msg) - 1

\* C17. Line assignment of the builder: the question is line 0 and the
\* options are lines 1.. when token 0 of line 0 is no modifier, line 1 and
\* lines 2.. when it is multiple or anon in any case; the message is title,
\* author context, option groups, control menu, divider, with one button
\* per option line in order, no voter in any button and no result line.
C17_LineAssignment ==
    (message # NoBlocks /\ Len(parameters) > QuestionIndex(parameters))
        => BuiltFrom(message, parameters)

-----------------------------------------------------------------------------
\* The labels of the buttons of one option group, and of the groups at the
\* 0-based positions from..to, read in order.
GroupLabels(block) == LabelsIn(block.elements)

RECURSIVE GroupsRead(_, _, _)
GroupsRead(msg, from, to) ==
    IF from > to THEN << >>
    ELSE GroupLabels(At(msg, from)) \o GroupsRead(msg, from + 1, to)

Grouped(msg, d, labels) ==
    /\ \A i \in 2..(d - 2) :
          IsOptionGroup(At(msg, i)) /\ Len(At(msg, i).elements) <= 5
    /\ GroupsRead(msg, 2, d - 2) = labels

\* C18. Option grouping: for any number of option lines the options are in
\* option groups of at most 5 buttons, and the buttons read group by group
\* are the option labels of the command in their order, one button each.
C18_Grouping ==
    (message # NoBlocks /\ Len(parameters) > QuestionIndex(parameters))
        => Grouped(message, getDividerId(message), OptionLabels(parameters))

-----------------------------------------------------------------------------
ConfidentialNotice == "*RESULTS (Confidential: do not distribute)*"

\* The view: the title text with the notice, then the result lines as a
\* poll that is not anonymous shows them, the redaction token nowhere.
RevealedView(view, poll) ==
    /\ view[1].type = "section"
    /\ StartsAt(view[1].text, getTitleFromMsg(poll.message), 0)
    /\ view[1].text[Len(view[1].text)] = ConfidentialNotice
    /\ Tail(view) = generateResults([poll EXCEPT !.anonymous = FALSE], FALSE)
    /\ \A i \in 1..Len(view) : ~Includes(view[i].text, HiddenToken)

\* C19. Collect is a read-only view: collect(blocks) is a block with the
\* question text and the confidentiality notice followed by the results
\* with the voters named, for an anonymous poll too, and the blocks of the
\* poll are the same after it: votes strings, lock state and result lines.
C19_CollectReadOnly ==
    /\ RevealedView(collect(message), Poll(message))
    /\ blocksAfterCollect(message) = message

\* An anonymous poll with a vote: the message hides the voter, the view
\* names them.
C19_Witness ==
    /\ Poll(message).anonymous
    /\ \E i \in 1..Len(ResultLines(message)) :
          Includes(ResultLines(message)[i].text, HiddenToken)
    /\ \E u \in Users : \E i \in 2..Len(collect(message)) :
          /\ Holders(message, u) # {}
          /\ Includes(collect(message)[i].text, Mention(u))

-----------------------------------------------------------------------------
\* A votes string: the placeholder first, then user identifiers, none twice.
WellFormedVotes(button) ==
    LET votes == Split(button.value, ",")
    IN  /\ votes[1] = EmptyVotes
        /\ \A i \in 2..Len(votes) : votes[i] \in Users
        /\ \A i, j \in 2..Len(votes) : votes[i] = votes[j] => i = j

\* Every tally line carries the number of elements after the placeholder
\* of an option with its label.
CountsShown(bs, lines) ==
    \A i \in 1..Len(lines) :
        \E k \in 1..Len(bs) :
            /\ Len(VotersOf(bs[k])) > 0
            /\ IsLineFor(lines[i], Len(VotersOf(bs[k])), bs[k].text)

\* From one voter list to the next the order is that of the votes: the
\* list is the same, or has lost one voter, or has a new voter at its end.
OrderKept(before, after) ==
    \/ after = before
    \/ \E i \in 1..Len(before) : after = Splice1(before, i - 1)
    \/ /\ Len(after) = Len(before) + 1
       /\ Slice(after, 0, Len(before)) = before
       /\ IndexOf(before, after[Len(after)]) = -1

VotersInOrder(bs, bs2) ==
    /\ Len(bs2) = Len(bs)
    /\ \A k \in 1..Len(bs) : OrderKept(VotersOf(bs[k]), VotersOf(bs2[k]))

\* C20. Votes strings: in every message reached by votes, resets, locks and
\* unlocks each votes string is the placeholder followed by user
\* identifiers, none twice in the same option, in the order in which they
\* voted (a step appends a new voter last and keeps the order of the
\* others), and the count a result line shows is the number of elements
\* after the placeholder.
C20_VotesString ==
    /\ [](/\ \A k \in 1..Len(buttonsOf(message)) :
                WellFormedVotes(buttonsOf(message)[k])
          /\ CountsShown(buttonsOf(message), TallyLines(message)))
    /\ [][VotersInOrder(buttonsOf(message), buttonsOf(message'))]_vars

\* An option whose second user voted before its first: the votes string
\* is in the order of the votes, not of the identifiers.
C20_Witness ==
    \E k \in 1..Len(buttonsOf(message)) :
        /\ VotersOf(buttonsOf(message)[k]) = <<UserId(2), UserId(1)>>
        /\ Len(TallyLines(message)) >= 1

-----------------------------------------------------------------------------
\* The calls on the web client that can fail.
PlatformMethods == {"postEphemeral", "delete", "postMessage"}

\* The blocks a request can carry: the message, or a malformed variant of
\* it that the constructor does not decode.
CarriedBlocks(msg) ==
    {msg} \cup {c \in MalformedOf(msg) : constructorThrows(c) # "nothing"}

RequestsOf(msg, u) ==
    UNION {PayloadsOf(c, u) : c \in CarriedBlocks(msg)}

\* Handling the request fails: the decode throws or a call it makes fails.
HandlingFails(p, failing) ==
    \/ constructorThrows(p.blocks) # "nothing"
    \/ rejectedCalls(handle(p).calls, failing) # {}

\* C21. Failure reporting: whenever handling a button or menu interaction
\* fails, because decoding the message throws or because a call on the
\* platform made by the handler (delete, re-post, ephemeral notice) fails,
\* the user receives the generic failure message and no updated message
\* is sent for that interaction.
C21_FailureReporting ==
    \A u \in Users : \A p \in RequestsOf(message, u) :
        \A failing \in SUBSET PlatformMethods :
            HandlingFails(p, failing) =>
                /\ request(p, failing).text = errorMsg
                /\ ~request(p, failing).sent

-----------------------------------------------------------------------------
\* A block with the votes strings of its buttons emptied.
Unvoted(block) ==
    IF block.type # "actions" THEN block
    ELSE [block EXCEPT !.elements =
            Seq1([k \in 1..Len(block.elements) |->
                    IF block.elements[k].type = "button"
                    THEN [block.elements[k] EXCEPT !.value = EmptyVotes]
                    ELSE block.elements[k]])]

\* The title, the author context, the option groups without their votes,
\* the control menu and the divider.
FrameOf(msg) ==
    Seq1([i \in 1..(getDividerId(msg) + 1) |-> Unvoted(msg[i])])

\* The voters of a button other than u, in their order.
OthersIn(button, u) == SelectSeq(VotersOf(button), LAMBDA v : v # u)

VoteResetFrame(m, m2, u) ==
    /\ FrameOf(m2) = FrameOf(m)
    /\ Len(buttonsOf(m2)) = Len(buttonsOf(m))
    /\ \A k \in 1..Len(buttonsOf(m)) :
          OthersIn(buttonsOf(m2)[k], u) = OthersIn(buttonsOf(m)[k], u)

\* C22. Frame of vote and reset: applyVote(m, l, u) and applyReset(m, u)
\* keep the title, the author context, the number, order and labels of the
\* options, the control menu and the divider, and in every option they keep
\* the voters other than u, in the same order.
C22_VoteResetFrame ==
    [](\A u \in Users :
          /\ VoteResetFrame(message, applyReset(message, u), u)
          /\ \A l \in LabelsOf(message) :
                VoteResetFrame(message, applyVote(message, l, u), u))

\* Two users hold the same option, and a vote and the reset of one of them
\* change the message.
C22_Witness ==
    \E u, v \in Users : \E k \in 1..Len(buttonsOf(message)) :
        /\ u # v
        /\ Occurs(u, buttonsOf(message)[k])
        /\ Occurs(v, buttonsOf(message)[k])
        /\ applyReset(message, u) # message
        /\ \E l \in LabelsOf(message) : applyVote(message, l, u) # message

-----------------------------------------------------------------------------
\* C23. Unlock removes only the lock marker: for every reachable message,
\* locked or not, the message applyUnlock returns has every tally line of
\* its input, in the same order, and no lock marker; on a poll that is not
\* locked no result line changes.
C23_UnlockKeepsTally ==
    /\ TallyLines(applyUnlock(message)) = TallyLines(message)
    /\ ~HasMarker(applyUnlock(message))
    /\ Unlocked(message) =>
          ResultLines(applyUnlock(message)) = ResultLines(message)

-----------------------------------------------------------------------------
\* The answer that landed as number i is the author's lock, or unlock.
AuthorSelected(i, code) ==
    /\ landed[i].selected = code
    /\ isPollAuthor(landed[i], Poll(landed[i].blocks))

\* The answer that landed as number j is to a vote or a reset of a user
\* who is not the author.
OtherVoteOrReset(j) ==
    /\ landed[j].selected \in {<< >>, <<"reset">>}
    /\ ~isPollAuthor(landed[j], Poll(landed[j].blocks))

-----------------------------------------------------------------------------
\* The answer to the reset selection of user u on the blocks msg.
ResetAnswer(msg, u) == handle(Payload(msg, u, << >>, <<"reset">>))

\* On locked blocks the answer hands the blocks back and tells the user; on
\* unlocked blocks it is applyReset, which leaves the user with fewer votes
\* when there was one.
ResetGated(msg, u, answer) ==
    IF ~Unlocked(msg)
    THEN /\ answer.blocks = msg
         /\ Methods(answer.calls) = {"postEphemeral"}
    ELSE /\ answer.blocks = applyReset(msg, u)
         /\ answer.calls = << >>
         /\ Holders(answer.blocks, u) \subseteq Holders(msg, u)
         /\ Holders(msg, u) # {} => Holders(answer.blocks, u) # Holders(msg, u)

\* C25. Reset is gated by the lock: the reset selection on a message that
\* decodes as locked sends back the blocks received, with no votes string
\* and no result line changed, for every user, the author included; on an
\* unlocked message it sends back applyReset of the blocks for the user.
C25_ResetGated ==
    [](\A u \in Users : ResetGated(message, u, ResetAnswer(message, u)))

\* A locked poll in which the author and another user hold votes that
\* applyReset would take out.
C25_Witness ==
    /\ ~Unlocked(message)
    /\ \A u \in Users :
          /\ Holders(message, u) # {}
          /\ applyReset(message, u) # message
          /\ ResetAnswer(message, u).blocks = message

-----------------------------------------------------------------------------
\* C26. Vote for an unknown label: on every unlocked message, single-choice
\* or multiple-choice, applyVote with a label that no option has leaves
\* every votes string as it is, the standing votes of the calling user
\* included.
C26_UnknownLabel ==
    (Unlocked(message) /\ ButtonsLabelled(message, UnknownLabel) = {}) =>
        \A u \in Users :
            VotesStrings(applyVote(message, UnknownLabel, u)) = VotesStrings(message)

\* In a multiple-choice poll the vote for the unknown label changes no
\* votes string; in a single-choice poll it takes the user out of every
\* option and keeps the other voters of every option.
UnknownVote(m, m2, u) ==
    IF Poll(m).multiple
    THEN VotesStrings(m2) = VotesStrings(m)
    ELSE /\ Holders(m2, u) = {}
         /\ Len(buttonsOf(m2)) = Len(buttonsOf(m))
         /\ \A k \in 1..Len(buttonsOf(m)) :
               VotersOf(buttonsOf(m2)[k]) = OthersIn(buttonsOf(m)[k], u)

\* C26 as amended. Vote for an unknown label: on an unlocked
\* multiple-choice message it leaves every votes string as it is; on an
\* unlocked single-choice message it removes the calling user from every
\* option and changes nothing else in the votes strings.
C26_UnknownLabelAmended ==
    []((Unlocked(message) /\ ButtonsLabelled(message, UnknownLabel) = {}) =>
          \A u \in Users :
              UnknownVote(message, applyVote(message, UnknownLabel, u), u))

\* An unlocked single-choice poll in which two users hold votes, one of
\* whom loses the vote by voting for the unknown label.
C26_Witness ==
    /\ Unlocked(message)
    /\ ~Poll(message).multiple
    /\ ButtonsLabelled(message, UnknownLabel) = {}
    /\ \E u, v \in Users :
          /\ u # v
          /\ Holders(message, u) # {}
          /\ Holders(message, v) # {}
          /\ Holders(applyVote(message, UnknownLabel, u), u) = {}
          /\ Holders(applyVote(message, UnknownLabel, u), v) = Holders(message, v)

-----------------------------------------------------------------------------
\* The numbers of buttons of the option groups, in order.
GroupSizes(msg) ==
    Seq1([i \in 1..(getDividerId(msg) - 3) |-> Len(At(msg, i + 1).elements)])

FivePacked(sizes) ==
    /\ Len(sizes) >= 1
    /\ \A g \in 1..(Len(sizes) - 1) : sizes[g] = ButtonsPerBlock
    /\ sizes[Len(sizes)] \in 1..ButtonsPerBlock

\* C27. Five-per-group packing: for every number n >= 1 of option lines,
\* with or without a modifier line, every option group of the poll created
\* holds exactly 5 buttons except the last, which holds between 1 and 5,
\* and no option group is empty.
C27_FivePacking ==
    (message # NoBlocks /\ Len(parameters) > QuestionIndex(parameters) + 1)
        => FivePacked(GroupSizes(message))

-----------------------------------------------------------------------------
\* The calls of a method completed so far, and those of them that succeeded.
LandedCalls(method) == {i \in 1..Len(landed) : landed[i].call.method = method}

Succeeded(method) == {i \in LandedCalls(method) : landed[i].ok}

IssuedCalls(method) == {item \in inflight : item.call.method = method}

\* The messages of the channel that carry the poll: the original one while
\* it is not deleted, and every message posted.
PollMessages ==
    (IF message # NoBlocks THEN 1 ELSE 0) + Cardinality(Succeeded("postMessage"))

\* The delete has completed before the re-post is issued.
DeleteBeforeRepost ==
    /\ IssuedCalls("postMessage") # {} => LandedCalls("delete") # {}
    /\ \A i \in LandedCalls("postMessage") :
          \E j \in LandedCalls("delete") : j < i

\* At most one re-post, with the blocks the payload was received with.
OneRepostOfSnapshot ==
    /\ Cardinality(IssuedCalls("postMessage"))
          + Cardinality(LandedCalls("postMessage")) <= 1
    /\ \A item \in IssuedCalls("postMessage") :
          item.call.blocks = item.payload.blocks
    /\ \A i \in LandedCalls("postMessage") :
          landed[i].call.blocks = landed[i].payload.blocks

\* The request of the author is complete: its delete has been attempted
\* and no call or timer is pending.
MoveComplete == inflight = {} /\ LandedCalls("delete") # {}

\* C28. Move to bottom: when the author selects the move, the delete of
\* the original message is attempted and has finished before the re-post
\* is issued, exactly one re-post is issued, with exactly the blocks of the
\* payload, and once the request is complete exactly one message carrying
\* the poll exists in the channel.
C28_MoveToBottom ==
    /\ DeleteBeforeRepost
    /\ OneRepostOfSnapshot
    /\ MoveComplete =>
          /\ Cardinality(LandedCalls("postMessage")) = 1
          /\ PollMessages = 1

=============================================================================
